---- MODULE Spec2Model ----
(***************************************************************************)
(* Model of the DNS analytics ingest notebook (01_DNS_Analytics_Ingest.py): *)
(* the Bronze Loader (pDNS json -> bronze_dns), the Threat-Feed Enricher    *)
(* (ThreatDataFeed.txt -> silver_threat_feeds) and the Brand-Twist Enricher *)
(* (domains_dnstwists.csv -> silver_twisted_domain_brand).                  *)
(*                                                                         *)
(* Strings are sequences of one-character strings, so that char_length,     *)
(* concat_ws and the domain extraction are computed on characters.  A row   *)
(* is a function from column names to values; a column that is NULL is      *)
(* absent from the row's domain.  A DataFrame, a file's lines and a table's *)
(* rows are bags (unordered, duplicates kept).                              *)
(***************************************************************************)
EXTENDS Integers, Sequences, FiniteSets, Bags, TLC

(* ------------------------------ bounds -------------------------------- *)
\* Largest number of lines in an input file.
MaxLines == 2

(* --------------------------- string literals -------------------------- *)
url_bad_example == <<"h","t","t","p",":","/","/","b","a","d","-","e","x","a","m","p","l","e",".","c","o",".","u","k","/","p","a","t","h","?","x","=","1">>
url_localhost == <<"h","t","t","p",":","/","/","l","o","c","a","l","h","o","s","t","/">>
bad_example == <<"b","a","d","-","e","x","a","m","p","l","e">>
bad_example_co_uk == <<"b","a","d","-","e","x","a","m","p","l","e",".","c","o",".","u","k">>
googlea_com == <<"g","o","o","g","l","e","a",".","c","o","m">>
googlea == <<"g","o","o","g","l","e","a">>
addition == <<"a","d","d","i","t","i","o","n">>
malware == <<"m","a","l","w","a","r","e">>
ns65 == <<"N","S",":","n","s","6","5">>
ip1 == <<"1",".","2",".","3",".","4">>
ip2 == <<"5",".","6",".","7",".","8">>
ip1_ip2 == <<"1",".","2",".","3",".","4",",","5",".","6",".","7",".","8">>
a_com == <<"a",".","c","o","m">>
ns_a_com == <<"n","s",".","a",".","c","o","m">>
com == <<"c","o","m">>
co == <<"c","o">>
uk == <<"u","k">>
EmptyStr == <<>>

(* ------------------------- generic bag helpers ------------------------ *)
RECURSIVE SumOver(_, _)
SumOver(f, S) ==
  IF S = {} THEN 0
  ELSE LET x == CHOOSE y \in S : TRUE IN f[x] + SumOver(f, S \ {x})

\* Every bag over S with at most n elements.
BagsUpTo(S, n) ==
  { b \in UNION { [D -> 1..n] : D \in SUBSET S } : SumOver(b, DOMAIN b) <= n }

\* The bag of f[e] for every copy of an e in B (a select / withColumn); f is
\* a function on the elements of B.
MapBag(f, B) == BagOfAll(LAMBDA e : f[e], B)

\* The sub-bag of the copies of B that lie in the set keep (a filter / where).
FilterBag(keep, B) == [ e \in keep \cap DOMAIN B |-> B[e] ]

Copies(B, e) == IF e \in DOMAIN B THEN B[e] ELSE 0

Size(B) == BagCardinality(B)

(* ----------------------- Domain/Suffix Extractor ---------------------- *)
\* Position of the first character of s, from i on, that lies in cs;
\* Len(s)+1 when there is none.
RECURSIVE FirstOf(_, _, _)
FirstOf(s, cs, i) ==
  IF i > Len(s) THEN Len(s) + 1
  ELSE IF s[i] \in cs THEN i
  ELSE FirstOf(s, cs, i + 1)

\* Position of the last character of s that lies in cs; 0 when there is none.
RECURSIVE LastOf(_, _, _)
LastOf(s, cs, i) ==
  IF i < 1 THEN 0
  ELSE IF s[i] \in cs THEN i
  ELSE LastOf(s, cs, i - 1)

\* The input without a leading "scheme://", c being the position of its
\* first colon.
StripSchemeAt(uri, c) ==
  IF c + 2 <= Len(uri) /\ c > 1 /\ uri[c + 1] = "/" /\ uri[c + 2] = "/"
    THEN SubSeq(uri, c + 3, Len(uri))
    ELSE uri

StripScheme(uri) == StripSchemeAt(uri, FirstOf(uri, {":"}, 1))

\* Without path, query string and fragment.
CutPath(s) == SubSeq(s, 1, FirstOf(s, {"/", "?", "#"}, 1) - 1)

\* Without "user:password@".
StripUserinfo(s) == SubSeq(s, LastOf(s, {"@"}, Len(s)) + 1, Len(s))

\* Without ":port".
CutPort(s) == SubSeq(s, 1, FirstOf(s, {":"}, 1) - 1)

\* Host part: no scheme, no path / query / fragment, no userinfo, no port.
Netloc(uri) == CutPort(StripUserinfo(CutPath(StripScheme(uri))))

\* The labels of a host name: the pieces between the dots; d is the position
\* of the first dot of s.
RECURSIVE Labels(_)
RECURSIVE LabelsAt(_, _)
LabelsAt(s, d) ==
  IF d > Len(s) THEN <<s>>
  ELSE <<SubSeq(s, 1, d - 1)>> \o Labels(SubSeq(s, d + 1, Len(s)))

Labels(s) == LabelsAt(s, FirstOf(s, {"."}, 1))

RECURSIVE JoinWith(_, _)
JoinWith(sep, parts) ==
  IF Len(parts) = 0 THEN EmptyStr
  ELSE IF Len(parts) = 1 THEN parts[1]
  ELSE parts[1] \o sep \o JoinWith(sep, Tail(parts))

\* The bundled public-suffix list: single-label and multi-label suffixes.
PublicSuffixes == { <<com>>, <<uk>>, <<co, uk>> }

\* The largest number of ns, 0 when there is none.
Largest(ns) == IF ns = {} THEN 0 ELSE CHOOSE n \in ns : \A m \in ns : m <= n

\* Number of trailing labels forming the longest known public suffix.
SuffixLabels(ls) ==
  Largest({ n \in 1..Len(ls) : SubSeq(ls, Len(ls) - n + 1, Len(ls)) \in PublicSuffixes })

\* The three results, from the bare domain and the suffix.
Results(dom, suf) ==
  [ suffix |-> suf,
    domain |-> dom,
    registered_domain |-> IF dom = EmptyStr THEN EmptyStr ELSE dom \o <<".">> \o suf ]

\* The labels ls split before their last n labels, the public suffix.
SplitLabels(ls, n) ==
  Results(IF n > 0 /\ Len(ls) > n THEN ls[Len(ls) - n] ELSE EmptyStr,
          JoinWith(<<".">>, SubSeq(ls, Len(ls) - n + 1, Len(ls))))

ParseLabels(ls) == SplitLabels(ls, SuffixLabels(ls))

\* (registered domain, bare domain, public suffix) of a URL or host name.
Parse(uri) == ParseLabels(Labels(Netloc(uri)))

\* The extraction is a pure function of its argument: its value on the
\* strings that occur in the input files is computed once and looked up.
Extracted == [ uri \in {url_bad_example, url_localhost, googlea_com, <<"a">>} |-> Parse(uri) ]

Extract(uri) == IF uri \in DOMAIN Extracted THEN Extracted[uri] ELSE Parse(uri)

\* The value returned for an input from which nothing can be extracted.
Degenerate == EmptyStr

\* The field of an extraction that has a suffix, the degenerate value otherwise.
FieldOf(ext, field) == IF ext.suffix = EmptyStr THEN Degenerate ELSE ext[field]

registered_domain_extract(uri) == FieldOf(Extract(uri), "registered_domain")

domain_extract(uri) == FieldOf(Extract(uri), "domain")

suffix_extract(uri) == FieldOf(Extract(uri), "suffix")

\* What the registered function may give for a NULL argument: NULL, or the
\* degenerate string.  It never raises.
NullResults == { [null |-> TRUE], [null |-> FALSE, val |-> Degenerate] }

(* ------------------------------ readers ------------------------------- *)
\* Result of a read or a write that may abort the run.
Failed == [failed |-> TRUE]
Ok(v) == [failed |-> FALSE, value |-> v]

\* One line of newline-delimited json parsed against a schema: the object's
\* fields that the schema names, the others dropped, the missing ones NULL.
\* A line that is no json object gives the all-NULL row; a blank line gives
\* no row.
from_json(line, schema) ==
  IF line.kind = "json" THEN [c \in (DOMAIN schema) \cap (DOMAIN line.obj) |-> line.obj[c]]
  ELSE [c \in {} |-> EmptyStr]

IsMalformedJson(line) == line.kind = "malformed"

\* spark.read.format("json").schema(schema).load(path) under a parse mode.
read_json(lines, schema, mode) ==
  LET records == FilterBag({ l \in DOMAIN lines : l.kind # "blank" }, lines)
      good    == FilterBag({ l \in DOMAIN records : ~IsMalformedJson(l) }, records)
      parsed  == [ l \in DOMAIN records |-> from_json(l, schema) ]
  IN IF mode = "FAILFAST" /\ good # records THEN Failed
     ELSE IF mode = "DROPMALFORMED" THEN Ok(MapBag(parsed, good))
     ELSE Ok(MapBag(parsed, records))

\* One csv line under a header: the tokens by position, every column a
\* string, a missing or empty token NULL, a surplus token dropped.
from_csv(line, header) ==
  [c \in { header[i] : i \in { j \in 1..Len(header) : j <= Len(line) /\ line[j] # EmptyStr } }
     |-> line[CHOOSE i \in 1..Len(header) : header[i] = c]]

IsMalformedCsv(line, header) == Len(line) # Len(header)

\* spark.read.csv(path, header=True) under a parse mode.
read_csv(lines, header, mode) ==
  LET good   == FilterBag({ l \in DOMAIN lines : ~IsMalformedCsv(l, header) }, lines)
      parsed == [ l \in DOMAIN lines |-> from_csv(l, header) ]
  IN IF mode = "FAILFAST" /\ good # lines THEN Failed
     ELSE IF mode = "DROPMALFORMED" THEN Ok(MapBag(parsed, good))
     ELSE Ok(MapBag(parsed, lines))

\* The parse mode of a reader that is given no mode option.
DefaultMode == "PERMISSIVE"

(* ------------------------------- tables ------------------------------- *)
Tables == {"bronze_dns", "silver_threat_feeds", "silver_twisted_domain_brand"}

NoTable == [exists |-> FALSE, schema |-> <<>>, rows |-> EmptyBag]

\* df.write.format("delta").mode(mode).option("mergeSchema", m).saveAsTable(t):
\* a new table takes the frame's schema; an existing one keeps its columns,
\* gains the frame's new columns only when mergeSchema is set (the write is
\* rejected otherwise), and has its rows replaced (overwrite) or extended
\* (append).
saveAsTable(tbl, schema, rows, mode, mergeSchema) ==
  IF ~tbl.exists THEN Ok([exists |-> TRUE, schema |-> schema, rows |-> rows])
  ELSE IF ~mergeSchema /\ ~(DOMAIN schema \subseteq DOMAIN tbl.schema) THEN Failed
  ELSE Ok([exists |-> TRUE,
           schema |-> tbl.schema @@ schema,
           rows   |-> IF mode = "overwrite" THEN rows ELSE tbl.rows (+) rows])

(* ---------------------------- Bronze Loader --------------------------- *)
pdns_schema ==
  [rrname |-> "string", rrtype |-> "string", time_first |-> "long", time_last |-> "long",
   count |-> "long", bailiwick |-> "string", rdata |-> "array<string>"]

\* The read with a parse mode that aborts on a malformed line.
df_failfast(lines) == read_json(lines, pdns_schema, "FAILFAST")

\* df = spark.read.format("json").schema(pdns_schema).load(...)
df(lines) == read_json(lines, pdns_schema, DefaultMode)

\* concat_ws(sep, col): the array's values joined by sep; the empty string
\* for a NULL array.
concat_ws(sep, row, c) == IF c \in DOMAIN row THEN JoinWith(sep, row[c]) ELSE EmptyStr

\* The new column joined with another separator.
df_enhanced_semicolon(rows) ==
  MapBag([ r \in DOMAIN rows |-> r @@ ("rdatastr" :> concat_ws(<<";">>, r, "rdata")) ], rows)

\* The frame with duplicate rows dropped.
df_enhanced_distinct(rows) ==
  SetToBag(BagToSet(
    MapBag([ r \in DOMAIN rows |-> r @@ ("rdatastr" :> concat_ws(<<",">>, r, "rdata")) ], rows)))

\* df.withColumn("rdatastr", concat_ws(",", col("rdata")))
df_enhanced(rows) ==
  MapBag([ r \in DOMAIN rows |-> r @@ ("rdatastr" :> concat_ws(<<",">>, r, "rdata")) ], rows)

df_enhanced_schema == pdns_schema @@ ("rdatastr" :> "string")

\* The write in append mode.
bronze_dns_write_append(tbl, rows) == saveAsTable(tbl, df_enhanced_schema, rows, "append", TRUE)

\* df_enhanced.write.format("delta").mode("overwrite").option("mergeSchema", "true")
\*   .saveAsTable("bronze_dns")
bronze_dns_write(tbl, rows) == saveAsTable(tbl, df_enhanced_schema, rows, "overwrite", TRUE)

(* ------------------------ registered functions ------------------------ *)
\* Result of calling a registered extraction function on a column of a row:
\* a string, NULL, or (raised) an exception that aborts the query.  onNull is
\* what the function gives for a NULL argument.

domain_extract_udf(row, c, onNull) ==
  IF c \in DOMAIN row THEN [raised |-> FALSE, null |-> FALSE, val |-> domain_extract(row[c])]
  ELSE [raised |-> FALSE] @@ onNull

registered_domain_extract_udf(row, c, onNull) ==
  IF c \in DOMAIN row
    THEN [raised |-> FALSE, null |-> FALSE, val |-> registered_domain_extract(row[c])]
  ELSE [raised |-> FALSE] @@ onNull

\* "select *, f(arg) as c": the row with column c added; c is NULL (absent)
\* when the function gives NULL.
WithColumn(row, c, res) == IF res.null THEN row ELSE row @@ (c :> res.val)

char_length(s) == Len(s)

\* filter("char_length(c) >= n"): a NULL c makes the predicate NULL and the
\* row is not kept.
CharLengthAtLeast(row, c, n) == c \in DOMAIN row /\ char_length(row[c]) >= n

\* dropDuplicates on the frame of a query that did not abort.
Distinct(res) == IF res.failed THEN Failed ELSE Ok(SetToBag(BagToSet(res.value)))

\* "select *, f(arg) as c from rows", call[r] being the function's result on
\* row r; the query aborts when the function raises on some row.
Select(call, c, rows) ==
  IF \E r \in DOMAIN rows : call[r].raised THEN Failed
  ELSE Ok(MapBag([ r \in DOMAIN rows |-> WithColumn(r, c, call[r]) ], rows))

(* ------------------------- Threat-Feed Enricher ----------------------- *)
ThreatFeedHeader == <<"url", "threat">>

\* threat_feeds_raw = spark.read.csv(threat_feeds_location, header=True)
threat_feeds_raw(lines) == read_csv(lines, ThreatFeedHeader, DefaultMode)

\* The query calling the registered-domain function instead.
threat_feeds_select_registered(row, onNull) == registered_domain_extract_udf(row, "url", onNull)

\* select *, domain_extract(url) as domain from threat_feeds_raw
threat_feeds_select(row, onNull) == domain_extract_udf(row, "url", onNull)

\* The filter with the bound 0: keeps every row with a non-NULL domain.
threat_feeds_filter_ge0(row) == CharLengthAtLeast(row, "domain", 0)

\* .filter("char_length(domain) >= 2")
threat_feeds_filter(row) == CharLengthAtLeast(row, "domain", 2)

threat_feeds_where(sel) ==
  IF sel.failed THEN Failed
  ELSE Ok(FilterBag({ r \in DOMAIN sel.value : threat_feeds_filter(r) }, sel.value))

\* The query with duplicate rows dropped.
threat_feeds_enriched_df_distinct(rows, onNull) ==
  Distinct(threat_feeds_where(
    Select([ r \in DOMAIN rows |-> threat_feeds_select(r, onNull) ], "domain", rows)))

threat_feeds_enriched_df(rows, onNull) ==
  threat_feeds_where(
    Select([ r \in DOMAIN rows |-> threat_feeds_select(r, onNull) ], "domain", rows))

threat_feeds_enriched_schema ==
  [c \in { ThreatFeedHeader[i] : i \in 1..Len(ThreatFeedHeader) } \cup {"domain"} |-> "string"]

\* threat_feeds_enriched_df.write.format("delta").mode('overwrite')
\*   .option("mergeSchema", True).saveAsTable("silver_threat_feeds")
silver_threat_feeds_write(tbl, rows) ==
  saveAsTable(tbl, threat_feeds_enriched_schema, rows, "overwrite", TRUE)

(* ------------------------- Brand-Twist Enricher ----------------------- *)
DnsTwistHeader == <<"PERMUTATIONTYPE", "domain", "meta">>

\* brand_domains_monitored_raw_df = spark.read.csv(".../domains_dnstwists.csv", header=True)
brand_domains_monitored_raw_df(lines) == read_csv(lines, DnsTwistHeader, DefaultMode)

\* select *, domain_extract(domain) as dnstwisted_domain from brand_domains_monitored_raw
brand_domains_monitored_select(row, onNull) == domain_extract_udf(row, "domain", onNull)

\* The filter with the bound 0.
brand_domains_monitored_filter_ge0(row) == CharLengthAtLeast(row, "dnstwisted_domain", 0)

\* .filter("char_length(dnstwisted_domain) >= 2")
brand_domains_monitored_filter(row) == CharLengthAtLeast(row, "dnstwisted_domain", 2)

brand_domains_monitored_where(sel) ==
  IF sel.failed THEN Failed
  ELSE Ok(FilterBag({ r \in DOMAIN sel.value : brand_domains_monitored_filter(r) }, sel.value))

brand_domains_monitored_enriched_df(rows, onNull) ==
  brand_domains_monitored_where(
    Select([ r \in DOMAIN rows |-> brand_domains_monitored_select(r, onNull) ],
           "dnstwisted_domain", rows))

brand_domains_monitored_enriched_schema ==
  [c \in { DnsTwistHeader[i] : i \in 1..Len(DnsTwistHeader) } \cup {"dnstwisted_domain"} |-> "string"]

\* brand_domains_monitored_enriched_df.write.format("delta").mode('overwrite')
\*   .option("mergeSchema", False).saveAsTable("silver_twisted_domain_brand")
silver_twisted_domain_brand_write(tbl, rows) ==
  saveAsTable(tbl, brand_domains_monitored_enriched_schema, rows, "overwrite", FALSE)

(* ------------------------------- inputs ------------------------------- *)
\* Lines of dns_events.json: two records that conform to the schema (the
\* second with time_first > time_last, a negative count and no bailiwick),
\* a line that is no json object, and a blank line.
dns_event_1 ==
  [kind |-> "json",
   obj  |-> [rrname |-> a_com, rrtype |-> <<"A">>, time_first |-> 1, time_last |-> 2,
             count |-> 3, bailiwick |-> com, rdata |-> <<ip1, ip2>>, sensor |-> <<"s">>]]
dns_event_2 ==
  [kind |-> "json",
   obj  |-> [rrname |-> ns_a_com, rrtype |-> <<"N", "S">>, time_first |-> 5, time_last |-> 4,
             count |-> -1, rdata |-> <<ns_a_com>>]]
dns_event_malformed == [kind |-> "malformed"]
dns_event_blank == [kind |-> "blank"]

DnsEventLines == {dns_event_1, dns_event_2, dns_event_malformed, dns_event_blank}

\* Lines of ThreatDataFeed.txt: a URL with a multi-label public suffix, a URL
\* without a public suffix, and a line whose url field is empty.
threat_line_bad_example == <<url_bad_example, malware>>
threat_line_localhost == <<url_localhost, malware>>
threat_line_no_url == <<EmptyStr, malware>>

ThreatFeedLines == {threat_line_bad_example, threat_line_localhost, threat_line_no_url}

\* Lines of domains_dnstwists.csv: a registered candidate, the one-character
\* candidate "a", and a line cut short after its first field.
twist_line_googlea == <<addition, googlea_com, ns65>>
twist_line_a == <<addition, <<"a">>, ns65>>
twist_line_short == <<addition>>

DnsTwistLines == {twist_line_googlea, twist_line_a, twist_line_short}

\* The possible contents of each input file.
DnsEventFiles == BagsUpTo(DnsEventLines, MaxLines)
ThreatFeedFiles == BagsUpTo(ThreatFeedLines, MaxLines)
DnsTwistFiles == BagsUpTo(DnsTwistLines, MaxLines)

(* -------------------------------- state ------------------------------- *)
VARIABLES
  tables,     \* table name -> [exists, schema, rows]
  lastInput,  \* table name -> the input file's lines at the loader's most recent run
  outcome,    \* table name -> "none" | "ok" | "failed": how that run ended
  rerun       \* TRUE when the last step ran a loader again on the unchanged input
              \* of its previous run

vars == <<tables, lastInput, outcome, rerun>>

Init ==
  /\ tables = [t \in Tables |-> NoTable]
  /\ lastInput = [t \in Tables |-> EmptyBag]
  /\ outcome = [t \in Tables |-> "none"]
  /\ rerun = FALSE

\* The tables after a run of the loader of table t that ended with res: t
\* replaced by the written table, or every table left alone when the run
\* aborted.
Written(t, res) == IF res.failed THEN tables ELSE [tables EXCEPT ![t] = res.value]

Ended(t, res) == [outcome EXCEPT ![t] = IF res.failed THEN "failed" ELSE "ok"]

Repeats(t, file) == outcome[t] # "none" /\ lastInput[t] = file

\* Cells "Loading pDNS data": read dns_events.json, add rdatastr, write bronze_dns.
BronzeLoader ==
  \E file \in DnsEventFiles :
    LET read == df(file)
        res  == IF read.failed THEN Failed
                ELSE bronze_dns_write(tables["bronze_dns"], df_enhanced(read.value))
    IN /\ tables' = Written("bronze_dns", res)
       /\ outcome' = Ended("bronze_dns", res)
       /\ lastInput' = [lastInput EXCEPT !["bronze_dns"] = file]
       /\ rerun' = Repeats("bronze_dns", file)

\* Cells "URLHaus threat feed setup": read ThreatDataFeed.txt, extract the
\* domain, filter, write silver_threat_feeds.
ThreatFeedEnricher ==
  \E file \in ThreatFeedFiles, onNull \in NullResults :
    LET raw == threat_feeds_raw(file)
        enr == IF raw.failed THEN Failed ELSE threat_feeds_enriched_df(raw.value, onNull)
        res == IF enr.failed THEN Failed
               ELSE silver_threat_feeds_write(tables["silver_threat_feeds"], enr.value)
    IN /\ tables' = Written("silver_threat_feeds", res)
       /\ outcome' = Ended("silver_threat_feeds", res)
       /\ lastInput' = [lastInput EXCEPT !["silver_threat_feeds"] = file]
       /\ rerun' = Repeats("silver_threat_feeds", file)

\* Cells "DNS Twist Setup": read domains_dnstwists.csv, extract the domain,
\* filter, write silver_twisted_domain_brand.
BrandTwistEnricher ==
  \E file \in DnsTwistFiles, onNull \in NullResults :
    LET raw == brand_domains_monitored_raw_df(file)
        enr == IF raw.failed THEN Failed
               ELSE brand_domains_monitored_enriched_df(raw.value, onNull)
        res == IF enr.failed THEN Failed
               ELSE silver_twisted_domain_brand_write(tables["silver_twisted_domain_brand"],
                                                      enr.value)
    IN /\ tables' = Written("silver_twisted_domain_brand", res)
       /\ outcome' = Ended("silver_twisted_domain_brand", res)
       /\ lastInput' = [lastInput EXCEPT !["silver_twisted_domain_brand"] = file]
       /\ rerun' = Repeats("silver_twisted_domain_brand", file)

Next == BronzeLoader \/ ThreatFeedEnricher \/ BrandTwistEnricher

Spec == Init /\ [][Next]_vars

(* ------------------------------ properties ---------------------------- *)
Rows(t) == tables[t].rows
RowSet(t) == DOMAIN tables[t].rows

EndsWith(s, t) == Len(t) <= Len(s) /\ SubSeq(s, Len(s) - Len(t) + 1, Len(s)) = t

HasDot(s) == \E i \in 1..Len(s) : s[i] = "."

\* The text of a public suffix, its labels joined by dots (no operator of the
\* extractor is used).
SuffixText(S) == IF Len(S) = 1 THEN S[1] ELSE S[1] \o <<".">> \o S[2]

\* The longest public suffix that the host name of uri ends with, as text.
LongestSuffix(host) ==
  LET ends == { SuffixText(S) : S \in { T \in PublicSuffixes : EndsWith(host, <<".">> \o SuffixText(T)) } }
  IN CHOOSE x \in ends : \A y \in ends : Len(y) <= Len(x)

EndsInSuffix(host) == \E S \in PublicSuffixes : EndsWith(host, <<".">> \o SuffixText(S))

\* v is the registered domain of host: one label followed by the longest
\* public suffix, at the end of host and starting at a label boundary.
IsRegisteredDomain(v, host) ==
  /\ EndsInSuffix(host)
  /\ LET suf == LongestSuffix(host)
         lab == SubSeq(v, 1, Len(v) - Len(suf) - 1)
     IN /\ EndsWith(v, <<".">> \o suf)
        /\ Len(lab) >= 1 /\ ~HasDot(lab)
        /\ EndsWith(host, v)
        /\ (Len(host) = Len(v) \/ host[Len(host) - Len(v)] = ".")

\* v is the bare domain of host: the registered domain without "." and suffix.
IsBareDomain(v, host) ==
  /\ EndsInSuffix(host)
  /\ IsRegisteredDomain(v \o <<".">> \o LongestSuffix(host), host)

threat_row_bad_example ==
  [url |-> url_bad_example, threat |-> malware, domain |-> bad_example]

twist_row_googlea ==
  [PERMUTATIONTYPE |-> addition, domain |-> googlea_com, meta |-> ns65,
   dnstwisted_domain |-> googlea]

\* C1: after any run of the two enrichers, every row of silver_threat_feeds
\* has a domain of length >= 2 and every row of silver_twisted_domain_brand a
\* dnstwisted_domain of length >= 2 (a NULL or empty value included), and no
\* row whose input gives an extracted value shorter than 2 is in the table.
C1_ShortExcluded ==
  /\ \A r \in RowSet("silver_threat_feeds") :
       /\ "domain" \in DOMAIN r /\ Len(r.domain) >= 2
       /\ "url" \in DOMAIN r /\ Len(domain_extract(r.url)) >= 2
  /\ \A r \in RowSet("silver_twisted_domain_brand") :
       /\ "dnstwisted_domain" \in DOMAIN r /\ Len(r.dnstwisted_domain) >= 2
       /\ "domain" \in DOMAIN r /\ Len(domain_extract(r.domain)) >= 2

\* Both enrichers have run on files holding a line whose extraction is
\* degenerate (no public suffix, one character) and a line with the field
\* missing.
C1_Witness ==
  /\ outcome["silver_threat_feeds"] = "ok"
  /\ DOMAIN lastInput["silver_threat_feeds"] = {threat_line_localhost, threat_line_no_url}
  /\ outcome["silver_twisted_domain_brand"] = "ok"
  /\ DOMAIN lastInput["silver_twisted_domain_brand"] = {twist_line_a, twist_line_short}

\* C2 (as stated): the stored derived value is the registered domain, ending
\* in the public suffix with exactly one label before it; the url
\* http://bad-example.co.uk/path?x=1 gives domain bad-example.co.uk and the
\* candidate googlea.com gives dnstwisted_domain googlea.com.
C2_RegisteredDomainStored ==
  /\ \A r \in RowSet("silver_threat_feeds") :
       /\ IsRegisteredDomain(r.domain, Netloc(r.url))
       /\ r.url = url_bad_example => r.domain = bad_example_co_uk
  /\ \A r \in RowSet("silver_twisted_domain_brand") :
       /\ IsRegisteredDomain(r.dnstwisted_domain, Netloc(r.domain))
       /\ r.domain = googlea_com => r.dnstwisted_domain = googlea_com

\* C2 (amended): the stored derived value is the bare domain, the single
\* label that precedes the longest public suffix of the host, without the
\* suffix: bad-example for http://bad-example.co.uk/path?x=1 and googlea for
\* googlea.com.
C2_BareDomainStored ==
  /\ \A r \in RowSet("silver_threat_feeds") :
       /\ IsBareDomain(r.domain, Netloc(r.url))
       /\ r.url = url_bad_example => r.domain = bad_example
  /\ \A r \in RowSet("silver_twisted_domain_brand") :
       /\ IsBareDomain(r.dnstwisted_domain, Netloc(r.domain))
       /\ r.domain = googlea_com => r.dnstwisted_domain = googlea

C2_Witness ==
  /\ \E r \in RowSet("silver_threat_feeds") : r.url = url_bad_example
  /\ \E r \in RowSet("silver_twisted_domain_brand") : r.domain = googlea_com

\* The rows each loader derives from the lines of its input file.
Derived(t, file, onNull) ==
  IF t = "bronze_dns" THEN df_enhanced(df(file).value)
  ELSE IF t = "silver_threat_feeds"
    THEN threat_feeds_enriched_df(threat_feeds_raw(file).value, onNull).value
  ELSE brand_domains_monitored_enriched_df(brand_domains_monitored_raw_df(file).value, onNull).value

\* C3: after any sequence of runs each table holds exactly the rows derived
\* from the input of the most recent run that wrote it, and a table no run
\* wrote does not exist: no row of an earlier run survives.
C3_OnlyLastRun ==
  \A t \in Tables :
    /\ outcome[t] = "none" => tables[t] = NoTable
    /\ outcome[t] = "ok" =>
         \A onNull \in NullResults : Rows(t) = Derived(t, lastInput[t], onNull)

\* Every loader has run, one of them at least twice, and every table holds
\* rows.
C3_Witness ==
  /\ \A t \in Tables : outcome[t] = "ok" /\ Rows(t) # EmptyBag
  /\ rerun

\* C4: a run of a loader on the unchanged input of its previous run leaves
\* the content and the schema of every table as they were.
C4_Idempotent == [][rerun' => tables' = tables]_vars

\* The Bronze Loader, the only loader run so far, has run again on the same
\* two-line file.
C4_Witness ==
  /\ rerun
  /\ outcome = [t \in Tables |-> IF t = "bronze_dns" THEN "ok" ELSE "none"]
  /\ Size(Rows("bronze_dns")) = 2

CommaJoined(a) ==
  LET acc[i \in 0..Len(a)] ==
        IF i = 0 THEN EmptyStr
        ELSE IF i = 1 THEN a[1]
        ELSE acc[i - 1] \o <<",">> \o a[i]
  IN acc[Len(a)]

\* C6: every row of bronze_dns that carries an rdata array has rdatastr equal
\* to the array's values in order joined by single commas (<<1.2.3.4,
\* 5.6.7.8>> gives "1.2.3.4,5.6.7.8"), and carries the seven schema fields of
\* a record of the input unchanged.
C6_Rdatastr ==
  \A r \in RowSet("bronze_dns") :
    "rdata" \in DOMAIN r =>
      /\ r.rdatastr = CommaJoined(r.rdata)
      /\ r.rdata = <<ip1, ip2>> => r.rdatastr = ip1_ip2
      /\ \E l \in DOMAIN lastInput["bronze_dns"] :
           /\ l.kind = "json"
           /\ \A c \in DOMAIN pdns_schema :
                /\ c \in DOMAIN r <=> c \in DOMAIN l.obj
                /\ c \in DOMAIN r => r[c] = l.obj[c]

C6_Witness ==
  \E r \in RowSet("bronze_dns") : "rdata" \in DOMAIN r /\ r.rdata = <<ip1, ip2>>

Malformed(t) ==
  IF t = "bronze_dns" THEN { l \in DOMAIN lastInput[t] : IsMalformedJson(l) }
  ELSE IF t = "silver_threat_feeds"
    THEN { l \in DOMAIN lastInput[t] : IsMalformedCsv(l, ThreatFeedHeader) }
  ELSE { l \in DOMAIN lastInput[t] : IsMalformedCsv(l, DnsTwistHeader) }

\* C8 (as stated): a run whose input file holds a malformed line aborts and
\* does not write its table.
C8_MalformedAborts ==
  \A t \in Tables : (outcome[t] # "none" /\ Malformed(t) # {}) => outcome[t] = "failed"

\* The row read from a json line that is no json object: every schema field
\* NULL, rdatastr the empty string.
NullRow == ("rdatastr" :> EmptyStr)

\* C8 (amended): a malformed line does not abort the run.  Every run
\* completes; each malformed json line is written to bronze_dns as a row whose
\* schema fields are all NULL, next to the rows of the well-formed lines; a
\* csv line cut short is read with the missing fields NULL and the rows of
\* the other lines are written.
C8_MalformedTolerated ==
  /\ \A t \in Tables : outcome[t] # "failed"
  /\ outcome["bronze_dns"] = "ok" =>
       /\ Copies(Rows("bronze_dns"), NullRow)
            = Copies(lastInput["bronze_dns"], dns_event_malformed)
       /\ Size(Rows("bronze_dns"))
            = Size(lastInput["bronze_dns"]) - Copies(lastInput["bronze_dns"], dns_event_blank)
  /\ outcome["silver_twisted_domain_brand"] = "ok" =>
       Copies(Rows("silver_twisted_domain_brand"), twist_row_googlea)
         = Copies(lastInput["silver_twisted_domain_brand"], twist_line_googlea)

\* Both a json file and a csv file with a malformed and a well-formed line
\* have been loaded.
C8_Witness ==
  /\ outcome["bronze_dns"] = "ok"
  /\ DOMAIN lastInput["bronze_dns"] = {dns_event_1, dns_event_malformed}
  /\ NullRow \in RowSet("bronze_dns")
  /\ outcome["silver_twisted_domain_brand"] = "ok"
  /\ DOMAIN lastInput["silver_twisted_domain_brand"] = {twist_line_googlea, twist_line_short}

\* C9: each curated table holds exactly one row for every input line whose
\* extracted value has length >= 2, the input columns unchanged and the
\* derived column added, duplicates kept; the row (addition, googlea.com) is
\* retained.
C9_OneRowPerKeptLine ==
  /\ outcome["silver_threat_feeds"] = "ok" =>
       /\ Copies(Rows("silver_threat_feeds"), threat_row_bad_example)
            = Copies(lastInput["silver_threat_feeds"], threat_line_bad_example)
       /\ RowSet("silver_threat_feeds") \subseteq {threat_row_bad_example}
  /\ outcome["silver_twisted_domain_brand"] = "ok" =>
       /\ Copies(Rows("silver_twisted_domain_brand"), twist_row_googlea)
            = Copies(lastInput["silver_twisted_domain_brand"], twist_line_googlea)
       /\ RowSet("silver_twisted_domain_brand") \subseteq {twist_row_googlea}

\* The same url twice in the feed, and the googlea.com candidate.
C9_Witness ==
  /\ Copies(Rows("silver_threat_feeds"), threat_row_bad_example) = 2
  /\ twist_row_googlea \in RowSet("silver_twisted_domain_brand")

\* The pDNS record invariant on a record or row: time_first <= time_last and
\* count >= 0, for the fields that are not NULL.
RecordInvariant(r) ==
  /\ ("time_first" \in DOMAIN r /\ "time_last" \in DOMAIN r) => r.time_first <= r.time_last
  /\ "count" \in DOMAIN r => r.count >= 0

\* C10 (as stated): every row of bronze_dns satisfies time_first <= time_last
\* and count >= 0, whatever schema-conforming input was loaded.
C10_InvariantAlways == \A r \in RowSet("bronze_dns") : RecordInvariant(r)

\* C10 (amended): the loader does not enforce the record invariant; every row
\* of bronze_dns satisfies it after a run on an input whose records all
\* satisfy it.
C10_InvariantPreserved ==
  (outcome["bronze_dns"] = "ok"
     /\ \A l \in DOMAIN lastInput["bronze_dns"] : l.kind = "json" => RecordInvariant(l.obj))
    => \A r \in RowSet("bronze_dns") : RecordInvariant(r)

C10_Witness ==
  /\ outcome["bronze_dns"] = "ok"
  /\ lastInput["bronze_dns"] = (dns_event_1 :> 1)
  /\ Size(Rows("bronze_dns")) = 1

====
